---------------------------- MODULE Spec2Model ----------------------------
(***************************************************************************)
(* A model of src/app.py: the upstream SSE connector (router_thread), the  *)
(* dispatch loop (process_update), the evaluation engine                   *)
(* (UpdateProcessor.evaluate_update, _parse_response, LLMProvider) and the *)
(* subscriber stream server (get_updates / generate).                      *)
(*                                                                         *)
(* Text is modelled as a sequence of lexemes (tokens); white space between *)
(* lexemes is not represented, since str.strip, str.find, str.rfind and    *)
(* json.loads do not depend on it.                                         *)
(*   "{" "}" "[" "]"   the JSON punctuation                                *)
(*   "r" "i" "s"       the member "decision": "recommend" /                *)
(*                     "inappropriate" / "stop"                            *)
(*   "k"               a member key  "k":  , followed by its value         *)
(*   "w"               a word of prose                                     *)
(*   "H"               the text  Here is the output:                       *)
(*   "J" "F"           the markdown fences ```json and ```                 *)
(***************************************************************************)
EXTENDS Integers, Sequences, FiniteSets, TLC

(***************************************************************************)
(* Bounds of the model.                                                    *)
(***************************************************************************)
\* number of subscribe requests (each runs get_updates in its own thread)
NumConns == 2
\* number of events the upstream feed delivers
MaxEvents == 2
\* cap on the count of consecutive unexpected errors
MaxConsec == 6
\* longest raw LLM response (in lexemes) the parser is applied to
MaxLen == 5

(***************************************************************************)
(* Program constants.                                                      *)
(***************************************************************************)
max_retries == 5
base_delay == 5
max_delay == 60

Prompts == {"p1", "p2"}
\* request.args.get('prompt') is None when the parameter is absent
NoPrompt == "<None>"
EmptyPrompt == ""
\* every value the prompt parameter of a request takes
Keys == Prompts \cup {NoPrompt, EmptyPrompt}
Conns == 1..NumConns
Events == 1..MaxEvents

(***************************************************************************)
(* JSON values, as json.loads builds them.                                 *)
(***************************************************************************)
Null == [kind |-> "null"]
Str(s) == [kind |-> "str", s |-> s]
Arr(es) == [kind |-> "arr", elems |-> es]
Obj(ms) == [kind |-> "obj", members |-> ms]
NoMembers == [x \in {} |-> Null]
\* dict item assignment  d[key] = v
SetMember(ms, key, v) == [x \in (DOMAIN ms) \cup {key} |-> IF x = key THEN v ELSE ms[x]]

DecisionOf(tok) ==
    CASE tok = "r" -> "recommend"
      [] tok = "i" -> "inappropriate"
      [] tok = "s" -> "stop"

PFail == [ok |-> FALSE, next |-> 0, val |-> Null]
POk(n, v) == [ok |-> TRUE, next |-> n, val |-> v]

RECURSIVE ParseValue(_, _)
RECURSIVE ParseMembers(_, _, _)
RECURSIVE ParseElems(_, _, _)

\* the members of an object, up to and including its closing brace
ParseMembers(s, i, acc) ==
    IF i > Len(s) THEN PFail
    ELSE IF s[i] = "}" THEN POk(i + 1, Obj(acc))
    ELSE IF s[i] \in {"r", "i", "s"}
         THEN ParseMembers(s, i + 1, SetMember(acc, "decision", Str(DecisionOf(s[i]))))
    ELSE IF s[i] = "k"
         THEN LET v == ParseValue(s, i + 1)
              IN  IF v.ok THEN ParseMembers(s, v.next, SetMember(acc, "k", v.val))
                  ELSE PFail
    ELSE PFail

\* the elements of an array, up to and including its closing bracket
ParseElems(s, i, acc) ==
    IF i > Len(s) THEN PFail
    ELSE IF s[i] = "]" THEN POk(i + 1, Arr(acc))
    ELSE LET v == ParseValue(s, i)
         IN  IF v.ok THEN ParseElems(s, v.next, Append(acc, v.val)) ELSE PFail

ParseValue(s, i) ==
    IF i > Len(s) THEN PFail
    ELSE IF s[i] = "{" THEN ParseMembers(s, i + 1, NoMembers)
    ELSE IF s[i] = "[" THEN ParseElems(s, i + 1, <<>>)
    ELSE PFail

Err == [ok |-> FALSE, val |-> Null]
Ok(v) == [ok |-> TRUE, val |-> v]

\* json.loads: the whole text must be one JSON value
json_loads(s) ==
    LET r == ParseValue(s, 1)
    IN  IF r.ok /\ r.next = Len(s) + 1 THEN Ok(r.val) ELSE Err

(***************************************************************************)
(* String helpers.                                                         *)
(***************************************************************************)
Positions(s, tok) == {i \in 1..Len(s) : s[i] = tok}
Max(S) == CHOOSE x \in S : \A y \in S : y <= x
Min(S) == CHOOSE x \in S : \A y \in S : x <= y
\* str.find / str.rfind, 1-based; 0 stands for Python's -1
find(s, tok) == IF Positions(s, tok) = {} THEN 0 ELSE Min(Positions(s, tok))
rfind(s, tok) == IF Positions(s, tok) = {} THEN 0 ELSE Max(Positions(s, tok))
\* s.split(tok)[-1]
AfterLast(s, tok) == SubSeq(s, rfind(s, tok) + 1, Len(s))
\* s.split(tok)[0]
BeforeFirst(s, tok) == IF find(s, tok) = 0 THEN s ELSE SubSeq(s, 1, find(s, tok) - 1)
\* a slice that leaves the last brace out
Slice_Exclusive(s, start, end) == SubSeq(s, start, end - 1)

\* s[start:end + 1] for found indices
Slice(s, start, end) == SubSeq(s, start, end)

(***************************************************************************)
(* UpdateProcessor._parse_response                                         *)
(***************************************************************************)
StripPreamble(response) ==
    IF Positions(response, "H") # {} THEN AfterLast(response, "H") ELSE response

Cleanup(response) ==
    LET start_idx == find(response, "{")
        end_idx == rfind(response, "}")
    IN  IF start_idx = 0 \/ end_idx = 0 THEN Err
        ELSE json_loads(Slice(response, start_idx, end_idx))

_parse_response(response) ==
    LET stripped == StripPreamble(response)
        direct == json_loads(stripped)
    IN  IF direct.ok THEN direct ELSE Cleanup(stripped)

(***************************************************************************)
(* LLMProvider                                                             *)
(***************************************************************************)
Providers == {"og", "gemini"}

_parse_og_response(response) == Append(response, "}")

_parse_gemini_response(response) ==
    IF Positions(response, "J") # {}
    THEN BeforeFirst(AfterLast(response, "J"), "F")
    ELSE response

\* call is "ok" when the vendor call returns text, "raise" when it throws
get_completion(provider, call, text) ==
    IF provider \notin Providers THEN [ok |-> FALSE, why |-> "provider", text |-> <<>>]
    ELSE IF call # "ok" THEN [ok |-> FALSE, why |-> "call", text |-> <<>>]
    ELSE [ok |-> TRUE, why |-> "none",
          text |-> IF provider = "og" THEN _parse_og_response(text)
                   ELSE _parse_gemini_response(text)]

(***************************************************************************)
(* UpdateProcessor.evaluate_update                                         *)
(*   node     : the shape of the cast: "ok", "noname" (author.name is      *)
(*              null), "nouser" (neither name nor username), "notext"      *)
(*   fetch    : outcome of the template fetch in _build_prompt             *)
(*   provider : the value of LLM_PROVIDER                                  *)
(*   call     : outcome of the vendor call                                 *)
(*   text     : the raw text the vendor returns                            *)
(* EvalTrace also names the step that failed, "none" when none did.        *)
(***************************************************************************)
StopDecision == Obj(SetMember(NoMembers, "decision", Str("stop")))

NodeKinds == {"ok", "noname", "nouser", "notext"}

\* update['author'].get('name') or update['author']['username']
AuthorResolves(node) == node # "nouser"

EvalTrace(node, fetch, provider, call, text) ==
    IF ~AuthorResolves(node) THEN [failed |-> "author", result |-> StopDecision]
    ELSE IF fetch # "ok" THEN [failed |-> "template", result |-> StopDecision]
    ELSE IF node = "notext" THEN [failed |-> "build", result |-> StopDecision]
    ELSE LET c == get_completion(provider, call, text)
         IN  IF ~c.ok THEN [failed |-> c.why, result |-> StopDecision]
             ELSE LET r == _parse_response(c.text)
                  IN  IF r.ok THEN [failed |-> "none", result |-> r.val]
                      ELSE [failed |-> "parse", result |-> StopDecision]

evaluate_update(node, fetch, provider, call, text) ==
    EvalTrace(node, fetch, provider, call, text).result

(***************************************************************************)
(* State.                                                                  *)
(***************************************************************************)
VARIABLES
    \* processor.active_routers: its keys in insertion order, and for each
    \* key the RouterConfig it maps to (0: the key is absent).  A
    \* RouterConfig is named by the connection whose request built it.
    routerKeys, routerVal,
    \* RouterConfig.prompt and RouterConfig.queue of each RouterConfig built
    rcPrompt, queue,
    \* get_updates, per request: position, the prompt parameter, the HTTP
    \* status answered, the local router_config, the frames generate() has
    \* yielded, and whether a whole quiescent interval has passed with the
    \* request blocked in queue.get() since its last frame
    pc, reqPrompt, status, router_config, frames, quiet,
    \* router_thread: position, retry_count, the delay it sleeps, and the
    \* count of unexpected errors since the last successful connection
    rpc, retry_count, delay, consec,
    \* router_thread: whether the Session bound to the local session is open,
    \* whether the local response is bound, and how the loop last came back
    \* to its top ("connerr", "unexpected", "end"; "none" once connected)
    session_open, response_bound, lastExit,
    \* process_update: the number of events received, the current event, the
    \* dict iterator (size at creation, position) and the loop's router_config
    nEvents, cur, iterLen, iterPos, curRC,
    \* history: the events whose root node was absent, the number of
    \* evaluate_update calls per event, what the last evaluation returned,
    \* and the (event, prompt) pairs whose evaluation returned recommend
    nodeless, evalCalls, lastOut, recommended,
    \* the response parser applied to one raw response
    raw, rawNode, parsed, evaluated, ppc

regVars == <<routerKeys, routerVal, rcPrompt>>
connVars == <<pc, reqPrompt, status, router_config, frames, quiet>>
resVars == <<session_open, response_bound, lastExit>>
threadVars == <<rpc, retry_count, delay, consec, resVars>>
dispVars == <<nEvents, cur, iterLen, iterPos, curRC>>
histVars == <<nodeless, evalCalls, lastOut, recommended>>
parseVars == <<raw, rawNode, parsed, evaluated, ppc>>
vars == <<regVars, queue, connVars, threadVars, dispVars, histVars, parseVars>>

NoEvent == [id |-> 0, kind |-> "none"]
NoResult == [ok |-> FALSE, val |-> Null]

SysInit ==
    /\ routerKeys = <<>>
    /\ routerVal = [p \in Keys |-> 0]
    /\ rcPrompt = [c \in Conns |-> NoPrompt]
    /\ queue = [c \in Conns |-> <<>>]
    /\ pc = [c \in Conns |-> "idle"]
    /\ reqPrompt = [c \in Conns |-> NoPrompt]
    /\ status = [c \in Conns |-> 0]
    /\ router_config = [c \in Conns |-> 0]
    /\ frames = [c \in Conns |-> <<>>]
    /\ quiet = [c \in Conns |-> FALSE]
    /\ rpc = "connect"
    /\ retry_count = 0
    /\ delay = 0
    /\ consec = 0
    /\ session_open = FALSE
    /\ response_bound = FALSE
    /\ lastExit = "none"
    /\ nEvents = 0
    /\ cur = NoEvent
    /\ iterLen = 0
    /\ iterPos = 0
    /\ curRC = 0
    /\ nodeless = {}
    /\ evalCalls = [e \in Events |-> 0]
    /\ lastOut = "none"
    /\ recommended = {}

ParseIdle ==
    /\ raw = <<>>
    /\ rawNode = "ok"
    /\ parsed = NoResult
    /\ evaluated = Null
    /\ ppc = "off"

Init == SysInit /\ ParseIdle

(***************************************************************************)
(* get_updates: one subscribe request per connection.                      *)
(***************************************************************************)
\* a guard that catches the empty string only
MissingPrompt_EmptyOnly(p) == p = EmptyPrompt

\* line 346:  if not prompt
MissingPrompt(p) == p = NoPrompt \/ p = EmptyPrompt

\* lines 345-347: read the parameter, answer 400 when it is missing
Request(c, p) ==
    /\ pc[c] = "idle"
    /\ reqPrompt' = [reqPrompt EXCEPT ![c] = p]
    /\ IF MissingPrompt(p)
       THEN /\ status' = [status EXCEPT ![c] = 400]
            /\ pc' = [pc EXCEPT ![c] = "rejected"]
       ELSE /\ status' = status
            /\ pc' = [pc EXCEPT ![c] = "check"]
    /\ UNCHANGED <<regVars, queue, router_config, frames, quiet,
                   threadVars, dispVars, histVars, parseVars>>

\* line 350:  prompt not in processor.active_routers
NotRegistered(p) == routerVal[p] = 0

CheckRegistered(c) ==
    /\ pc[c] = "check"
    /\ pc' = [pc EXCEPT ![c] = IF NotRegistered(reqPrompt[c]) THEN "create" ELSE "lookup"]
    /\ UNCHANGED <<regVars, queue, reqPrompt, status, router_config, frames, quiet,
                   threadVars, dispVars, histVars, parseVars>>

\* lines 351-355: build a RouterConfig with a fresh queue and store it
\* under the prompt (a key already present keeps its place in the dict)
CreateRouter(c) ==
    /\ pc[c] = "create"
    /\ rcPrompt' = [rcPrompt EXCEPT ![c] = reqPrompt[c]]
    /\ routerVal' = [routerVal EXCEPT ![reqPrompt[c]] = c]
    /\ routerKeys' = IF routerVal[reqPrompt[c]] = 0
                     THEN Append(routerKeys, reqPrompt[c])
                     ELSE routerKeys
    /\ pc' = [pc EXCEPT ![c] = "lookup"]
    /\ UNCHANGED <<queue, reqPrompt, status, router_config, frames, quiet,
                   threadVars, dispVars, histVars, parseVars>>

\* line 357, then the streaming Response of lines 372-379
LookupRouter(c) ==
    /\ pc[c] = "lookup"
    /\ router_config' = [router_config EXCEPT ![c] = routerVal[reqPrompt[c]]]
    /\ status' = [status EXCEPT ![c] = 200]
    /\ pc' = [pc EXCEPT ![c] = "get"]
    /\ UNCHANGED <<regVars, queue, reqPrompt, frames, quiet,
                   threadVars, dispVars, histVars, parseVars>>

\* line 363: queue.get() is called with no timeout
GetHasTimeout == FALSE

\* queue.get(): an item when there is one; queue.Empty when a timeout was
\* given and has run out; otherwise the caller stays blocked
queue_get(q, timedOut) ==
    IF q # <<>> THEN "item"
    ELSE IF GetHasTimeout /\ timedOut THEN "Empty"
    ELSE "blocked"

DataFrame(d) == [type |-> "data", payload |-> d]
KeepaliveFrame == [type |-> "keepalive", payload |-> Null]

\* a read that leaves the item in the queue
AfterGet_Peek(q) == q

\* line 363: queue.get() removes the item it returns
AfterGet(q) == Tail(q)

\* lines 363-364: an item arrives and is yielded as a data frame
GenerateData(c) ==
    /\ pc[c] = "get"
    /\ queue_get(queue[router_config[c]], FALSE) = "item"
    /\ frames' = [frames EXCEPT ![c] = Append(@, DataFrame(Head(queue[router_config[c]])))]
    /\ queue' = [queue EXCEPT ![router_config[c]] = AfterGet(@)]
    /\ quiet' = [quiet EXCEPT ![c] = FALSE]
    /\ UNCHANGED <<regVars, pc, reqPrompt, status, router_config,
                   threadVars, dispVars, histVars, parseVars>>

\* lines 363-367: a quiescent interval passes with the queue empty
QuietInterval(c) ==
    /\ pc[c] = "get"
    /\ queue[router_config[c]] = <<>>
    /\ IF queue_get(queue[router_config[c]], TRUE) = "Empty"
       THEN /\ frames' = [frames EXCEPT ![c] = Append(@, KeepaliveFrame)]
            /\ quiet' = [quiet EXCEPT ![c] = FALSE]
       ELSE /\ frames' = frames
            /\ quiet' = [quiet EXCEPT ![c] = TRUE]
    /\ UNCHANGED <<regVars, queue, pc, reqPrompt, status, router_config,
                   threadVars, dispVars, histVars, parseVars>>

(***************************************************************************)
(* router_thread                                                           *)
(***************************************************************************)
RECURSIVE Pow2(_)
Pow2(n) == IF n = 0 THEN 1 ELSE 2 * Pow2(n - 1)

\* a delay without its cap
BackoffDelay_Uncapped(rc) == base_delay * Pow2(rc)

\* line 307:  min(base_delay * (2 ** retry_count), 60)
BackoffDelay(rc) ==
    IF base_delay * Pow2(rc) < max_delay THEN base_delay * Pow2(rc) ELSE max_delay

\* lines 315-317: the counter is reset once it reaches max_retries
AfterMaxRetries(rc) == IF rc >= max_retries THEN 0 ELSE rc

\* a connection that leaves the retry count as it finds it
RetryAfterConnect_Keep == retry_count

\* line 278: the retry count after a successful connection
RetryAfterConnect == 0

\* lines 263-278: a Session is made, the GET succeeds and binds response;
\* the retry count is reset
Connect ==
    /\ rpc = "connect"
    /\ rpc' = "streaming"
    /\ retry_count' = RetryAfterConnect
    /\ consec' = 0
    /\ session_open' = TRUE
    /\ response_bound' = TRUE
    /\ lastExit' = "none"
    /\ UNCHANGED <<regVars, queue, connVars, delay, dispVars, histVars, parseVars>>

\* where an exception leaves the try block: "get" is session.get raising
\* (line 266, response is not assigned), "later" is anything after it
\* (raise_for_status, SSEClient, the event iterator)
RaisePoints == {"get", "later"}
CanRaise(at) == (rpc = "connect") \/ (rpc = "streaming" /\ at = "later")

\* whether response is bound when the handler runs
BoundAtHandler(at) == IF at = "get" THEN response_bound ELSE TRUE

\* lines 296-300 and 320-324:  try: response.close(); session.close()
\* except: pass.  With response unbound the first call raises and
\* session.close() is not reached: the Session stays open
SessionOpenAfterCleanup(bound) == ~bound

\* a handler that counts the connection error as a retry
RetryAfterConnectionError_Counted(rc) == rc + 1

\* lines 292-303: the retry count after a connection error
RetryAfterConnectionError(rc) == rc

\* line 303: continue, with no sleep
AfterConnectionError == "connect"

\* lines 292-303: a RequestException or TimeoutError, raised by the
\* connect or by the event iterator: clean up and retry at once
ConnectionError(at) ==
    /\ CanRaise(at)
    /\ rpc' = AfterConnectionError
    /\ retry_count' = RetryAfterConnectionError(retry_count)
    /\ response_bound' = BoundAtHandler(at)
    /\ session_open' = SessionOpenAfterCleanup(BoundAtHandler(at))
    /\ lastExit' = "connerr"
    /\ UNCHANGED <<regVars, queue, connVars, delay, consec,
                   dispVars, histVars, parseVars>>

\* a handler that leaves the loop once the retries are used up
AfterUnexpectedError_GiveUp(rc) == IF rc >= max_retries THEN "exited" ELSE "sleeping"

\* lines 315-326: the handler neither returns nor raises; it sleeps
AfterUnexpectedError(rc) == "sleeping"

\* lines 305-326: any other exception, raised by the connect or by the
\* event iterator: count it, compute the delay, clean up, sleep
UnexpectedError(at) ==
    /\ CanRaise(at)
    /\ consec < MaxConsec
    /\ consec' = consec + 1
    /\ delay' = BackoffDelay(retry_count + 1)
    /\ retry_count' = AfterMaxRetries(retry_count + 1)
    /\ rpc' = AfterUnexpectedError(retry_count + 1)
    /\ response_bound' = BoundAtHandler(at)
    /\ session_open' = SessionOpenAfterCleanup(BoundAtHandler(at))
    /\ lastExit' = "unexpected"
    /\ UNCHANGED <<regVars, queue, connVars, dispVars, histVars, parseVars>>

\* line 326: time.sleep(delay) returns; back to the top of the loop
Wake ==
    /\ rpc = "sleeping"
    /\ rpc' = "connect"
    /\ UNCHANGED <<regVars, queue, connVars, retry_count, delay, consec, resVars,
                   dispVars, histVars, parseVars>>

\* a thread that returns when the stream is over
AfterStreamEnd_Return == "exited"

\* lines 254 and 280: after the for loop the while loop starts over
AfterStreamEnd == "connect"

\* line 280: client.events() is exhausted; nothing is closed and the loop
\* goes back to its top
StreamEnd ==
    /\ rpc = "streaming"
    /\ rpc' = AfterStreamEnd
    /\ lastExit' = "end"
    /\ UNCHANGED <<regVars, queue, connVars, retry_count, delay, consec,
                   session_open, response_bound, dispVars, histVars, parseVars>>

(***************************************************************************)
(* process_update                                                          *)
(*   An event is one of                                                    *)
(*     "badjson"  its data is not JSON (json.loads raises, line 282)       *)
(*     "notdict"  its data is JSON but not an object                       *)
(*     "nodata"   no 'data' key           "nulldata"  'data' is null       *)
(*     "nonode"   no 'node' key           "nullnode"  'node' is null/empty *)
(*     "nouser"   a node whose author has no username (line 223 raises)    *)
(*     "ok" "noname" "notext"  a node that reaches the loop of line 227    *)
(***************************************************************************)
EventKinds == {"badjson", "notdict", "nodata", "nulldata", "nonode", "nullnode",
               "nouser", "ok", "noname", "notext"}

\* the decoded events that carry no root data node
NodelessKinds == {"notdict", "nodata", "nulldata", "nonode", "nullnode"}

\* a guard that looks for 'data' only
HasNode_DataOnly(kind) == kind \notin {"badjson", "notdict", "nodata", "nulldata"}

\* line 217:  updated_item.get('data', {}).get('node')  is truthy
HasNode(kind) == kind \in {"nouser", "ok", "noname", "notext"}

\* lines 217-224: what process_update does before the loop
\*   "skip"    json.loads raised, process_update is not called
\*   "reject"  no root node: logged and dropped (or .get raised: line 244)
\*   "raise"   deriving the link raised, caught at line 244
\*   "loop"    the loop over active_routers is entered
BeforeLoop(kind) ==
    IF kind = "badjson" THEN "skip"
    ELSE IF ~HasNode(kind) THEN "reject"
    ELSE IF kind = "nouser" THEN "raise"
    ELSE "loop"

\* the events whose decoding raises (line 282) or whose processing raises
\* before the loop (AttributeError at line 217, KeyError at line 223)
RaisingKinds == {"badjson", "notdict", "nulldata", "nouser"}

\* an event loop that is left when an event cannot be handled
AfterSkippedEvent_Reconnect == "connect"

\* lines 285-290 and 244-245: the error is logged and the for loop of
\* line 280 goes on with the next event
AfterSkippedEvent == "streaming"

\* lines 280-284 and 212-227: the next event is read and decoded, and
\* process_update runs up to the creation of the dict iterator
ReceiveEvent(kind) ==
    /\ rpc = "streaming"
    /\ nEvents < MaxEvents
    /\ nEvents' = nEvents + 1
    /\ nodeless' = IF kind \in NodelessKinds
                   THEN nodeless \cup {nEvents + 1} ELSE nodeless
    /\ IF BeforeLoop(kind) = "loop"
       THEN /\ rpc' = "dispatch"
            /\ cur' = [id |-> nEvents + 1, kind |-> kind]
            /\ iterLen' = Len(routerKeys)
            /\ iterPos' = 0
       ELSE /\ rpc' = AfterSkippedEvent
            /\ UNCHANGED <<cur, iterLen, iterPos>>
    /\ UNCHANGED <<regVars, queue, connVars, retry_count, delay, consec, resVars,
                   curRC, evalCalls, lastOut, recommended, parseVars>>

\* an iterator that yields the first RouterConfig at every position
ItemAt_First(i) == routerVal[routerKeys[1]]

\* line 227: the RouterConfig the dict iterator yields at position i
ItemAt(i) == routerVal[routerKeys[i]]

\* line 227, one step of the dict iterator: RuntimeError if the dict
\* changed size (caught at line 244), the end of the loop, or the next item
IterNext ==
    /\ rpc = "dispatch"
    /\ IF Len(routerKeys) # iterLen \/ iterPos >= iterLen
       THEN /\ rpc' = "streaming"
            /\ cur' = NoEvent
            /\ iterLen' = 0
            /\ iterPos' = 0
            /\ curRC' = 0
       ELSE /\ rpc' = "eval"
            /\ curRC' = ItemAt(iterPos + 1)
            /\ iterPos' = iterPos + 1
            /\ UNCHANGED <<cur, iterLen>>
    /\ lastOut' = "none"
    /\ UNCHANGED <<regVars, queue, connVars, retry_count, delay, consec, resVars,
                   nEvents, nodeless, evalCalls, recommended, parseVars>>

\* the raw texts a vendor returns
RawResponses ==
    { <<"{", "r", "}">>, <<"w", "{", "r", "}", "w">>, <<"J", "{", "r", "}", "F">>,
      <<"{", "r">>, <<"{", "i", "}">>, <<"{", "s", "}">>, <<"{", "}">>,
      <<"[", "]">>, <<"w">> }

\* what one evaluation meets: the template fetch and the vendor call
\* return or raise, LLM_PROVIDER names a provider or not, and the vendor
\* returns one of the raw texts
EvalInputs ==
    [fetch : {"ok"}, provider : Providers, call : {"ok"}, text : RawResponses]
    \cup { [fetch |-> "raise", provider |-> "gemini", call |-> "ok", text |-> <<>>],
           [fetch |-> "ok", provider |-> "other", call |-> "ok", text |-> <<>>],
           [fetch |-> "ok", provider |-> "gemini", call |-> "raise", text |-> <<>>] }

UpdateRef(e) == [kind |-> "update", id |-> e]

\* a test for the presence of a decision, whatever it is
Recommended_AnyDecision(result) ==
    /\ result.kind = "obj"
    /\ "decision" \in DOMAIN result.members

\* line 234 succeeds on a dict only; line 237 needs the key 'decision'
Recommended(result) ==
    /\ result.kind = "obj"
    /\ "decision" \in DOMAIN result.members
    /\ result.members["decision"] = Str("recommend")

\* line 234:  result['item'] = updated_item
WithItem(result, e) == Obj(SetMember(result.members, "item", UpdateRef(e)))

\* what the history records of one evaluate_update call
Outcome(t) ==
    IF t.failed # "none" THEN "failed"
    ELSE IF t.result.kind = "obj" /\ "decision" \in DOMAIN t.result.members
         THEN t.result.members["decision"].s
    ELSE "nodecision"

\* lines 234 and 237: result['item'] = ... raises TypeError on a list,
\* result['decision'] raises KeyError on a dict without the key
LoopBodyRaises(result) ==
    ~(result.kind = "obj" /\ "decision" \in DOMAIN result.members)

\* a loop whose body is not guarded: the exception ends process_update
AfterLoopBody_Propagate(raised) == IF raised THEN "streaming" ELSE "dispatch"

\* lines 229 and 241-242: the exception is logged inside the loop, which
\* goes on with the next RouterConfig
AfterLoopBody(raised) == "dispatch"

\* lines 228-242: the body of the loop for one RouterConfig
Evaluate(in) ==
    /\ rpc = "eval"
    /\ LET t == EvalTrace(cur.kind, in.fetch, in.provider, in.call, in.text)
           result == evaluate_update(cur.kind, in.fetch, in.provider, in.call, in.text)
           p == rcPrompt[curRC]
       IN  /\ evalCalls' = [evalCalls EXCEPT ![cur.id] = @ + 1]
           /\ lastOut' = Outcome(t)
           /\ recommended' = IF Outcome(t) = "recommend"
                             THEN recommended \cup {<<cur.id, p>>} ELSE recommended
           /\ IF Recommended(result)
              THEN queue' = [queue EXCEPT ![curRC] = Append(@, WithItem(result, cur.id))]
              ELSE queue' = queue
           /\ rpc' = AfterLoopBody(LoopBodyRaises(result))
    /\ UNCHANGED <<regVars, connVars, retry_count, delay, consec, resVars, dispVars,
                   nodeless, parseVars>>

\* lines 149, 70-76 and 86-90: the template fetch and the vendor calls
\* are made with no timeout; while one does not return, the loop body, and
\* with it the thread of router_thread, stays inside evaluate_update
ProviderHangs ==
    /\ rpc = "eval"
    /\ rpc' = "hung"
    /\ evalCalls' = [evalCalls EXCEPT ![cur.id] = @ + 1]
    /\ lastOut' = "hung"
    /\ UNCHANGED <<regVars, queue, connVars, retry_count, delay, consec, resVars,
                   dispVars, nodeless, recommended, parseVars>>

(***************************************************************************)
(* The system.                                                             *)
(***************************************************************************)
Next ==
    \/ \E c \in Conns, p \in Keys : Request(c, p)
    \/ \E c \in Conns : CheckRegistered(c)
    \/ \E c \in Conns : CreateRouter(c)
    \/ \E c \in Conns : LookupRouter(c)
    \/ \E c \in Conns : GenerateData(c)
    \/ \E c \in Conns : QuietInterval(c)
    \/ Connect
    \/ \E at \in RaisePoints : ConnectionError(at)
    \/ \E at \in RaisePoints : UnexpectedError(at)
    \/ Wake
    \/ StreamEnd
    \/ \E kind \in EventKinds : ReceiveEvent(kind)
    \/ IterNext
    \/ \E in \in EvalInputs : Evaluate(in)
    \/ ProviderHangs

Spec == Init /\ [][Next]_vars

(***************************************************************************)
(* The response parser and the evaluation engine applied to every raw      *)
(* response of at most MaxLen lexemes.                                     *)
(***************************************************************************)
ParseAlphabet == {"{", "}", "[", "]", "r", "k", "w", "H"}
Texts == UNION {[1..n -> ParseAlphabet] : n \in 0..MaxLen}

ParseInit ==
    /\ SysInit
    /\ raw \in Texts
    /\ rawNode \in {"ok", "noname"}
    /\ parsed = NoResult
    /\ evaluated = Null
    /\ ppc = "raw"

\* line 134:  result = self._parse_response(response)
ParseStep ==
    /\ ppc = "raw"
    /\ parsed' = _parse_response(raw)
    /\ ppc' = "parsed"
    /\ UNCHANGED <<regVars, queue, connVars, threadVars, dispVars, histVars,
                   raw, rawNode, evaluated>>

\* lines 119-144 with the vendor returning raw as it is
EvaluateStep ==
    /\ ppc = "parsed"
    /\ evaluated' = evaluate_update(rawNode, "ok", "gemini", "ok", raw)
    /\ ppc' = "done"
    /\ UNCHANGED <<regVars, queue, connVars, threadVars, dispVars, histVars,
                   raw, rawNode, parsed>>

ParseNext == ParseStep \/ EvaluateStep

ParseSpec == ParseInit /\ [][ParseNext]_vars

(***************************************************************************)
(* Fairness: the operating system schedules every thread that can run; the *)
(* feed, the clients and the passing of time are not obliged to act.       *)
(***************************************************************************)
FairSpec ==
    /\ Spec
    /\ \A c \in Conns :
          WF_vars(CheckRegistered(c) \/ CreateRouter(c) \/ LookupRouter(c) \/ GenerateData(c))
    /\ WF_vars(IterNext \/ \E in \in EvalInputs : Evaluate(in))
    /\ WF_vars(Wake)

(***************************************************************************)
(* The thread of router_thread alone, from the state in which one client   *)
(* has subscribed with prompt p1 and waits on its queue.                   *)
(***************************************************************************)
ConnectorInit ==
    /\ routerKeys = <<"p1">>
    /\ routerVal = [p \in Keys |-> IF p = "p1" THEN 1 ELSE 0]
    /\ rcPrompt = [c \in Conns |-> IF c = 1 THEN "p1" ELSE NoPrompt]
    /\ queue = [c \in Conns |-> <<>>]
    /\ pc = [c \in Conns |-> IF c = 1 THEN "get" ELSE "idle"]
    /\ reqPrompt = [c \in Conns |-> IF c = 1 THEN "p1" ELSE NoPrompt]
    /\ status = [c \in Conns |-> IF c = 1 THEN 200 ELSE 0]
    /\ router_config = [c \in Conns |-> IF c = 1 THEN 1 ELSE 0]
    /\ frames = [c \in Conns |-> <<>>]
    /\ quiet = [c \in Conns |-> FALSE]
    /\ rpc = "connect"
    /\ retry_count = 0
    /\ delay = 0
    /\ consec = 0
    /\ session_open = FALSE
    /\ response_bound = FALSE
    /\ lastExit = "none"
    /\ nEvents = 0
    /\ cur = NoEvent
    /\ iterLen = 0
    /\ iterPos = 0
    /\ curRC = 0
    /\ nodeless = {}
    /\ evalCalls = [e \in Events |-> 0]
    /\ lastOut = "none"
    /\ recommended = {}
    /\ ParseIdle

ConnectorNext ==
    \/ Connect
    \/ \E at \in RaisePoints : ConnectionError(at)
    \/ \E at \in RaisePoints : UnexpectedError(at)
    \/ Wake
    \/ StreamEnd
    \/ \E kind \in EventKinds : ReceiveEvent(kind)
    \/ IterNext
    \/ \E in \in EvalInputs : Evaluate(in)
    \/ ProviderHangs

ConnectorSpec == ConnectorInit /\ [][ConnectorNext]_vars

\* the sleep of line 326 returns, and the thread is scheduled
ConnectorFairSpec ==
    /\ ConnectorSpec
    /\ WF_vars(IterNext \/ \E in \in EvalInputs : Evaluate(in))
    /\ WF_vars(Wake)

(***************************************************************************)
(* Helpers of the properties.                                              *)
(***************************************************************************)
ItemId(d) == d.members["item"].id

\* the queued Decisions for event e in the queues built for prompt p
QueuedFor(e, p) ==
    {<<c, i>> \in Conns \X (1..MaxEvents) :
        rcPrompt[c] = p /\ i <= Len(queue[c]) /\ ItemId(queue[c][i]) = e}

\* the data frames for event e on the connections that asked for prompt p
EmittedFor(e, p) ==
    {<<c, i>> \in Conns \X (1..MaxEvents) :
        reqPrompt[c] = p /\ i <= Len(frames[c])
        /\ frames[c][i].type = "data" /\ ItemId(frames[c][i].payload) = e}

Min2(a, b) == IF a < b THEN a ELSE b
HasBrace(text) == Positions(text, "{") # {} /\ Positions(text, "}") # {}
\* what the prose around an object is made of: words, the preamble text and
\* square brackets, but no brace
ProseTokens == {"w", "H", "[", "]"}

\* text is a JSON object with prose before and after it
SurroundedObject(text) ==
    LET i == find(text, "{")
        j == rfind(text, "}")
    IN  /\ HasBrace(text)
        /\ i <= j
        /\ \A n \in 1..Len(text) : (n < i \/ n > j) => text[n] \in ProseTokens
        /\ json_loads(SubSeq(text, i, j)).ok
        /\ json_loads(SubSeq(text, i, j)).val.kind = "obj"

EmbeddedObject(text) == json_loads(SubSeq(text, find(text, "{"), rfind(text, "}")))

\* what follows the last "Here is the output:" of text is, as a whole, a
\* JSON value other than the embedded object (the object inside an array)
WholeIsOtherJson(text) ==
    /\ json_loads(AfterLast(text, "H")).ok
    /\ json_loads(AfterLast(text, "H")) # EmbeddedObject(text)

(***************************************************************************)
(* C1. Fail-closed forwarding: every Decision held in a queue is a         *)
(* recommend Decision carrying the update of an event whose evaluation for *)
(* that queue's prompt returned recommend without failing; and right after *)
(* an evaluation that failed or returned anything but recommend, no queue  *)
(* holds a Decision for that event and prompt.                             *)
(***************************************************************************)
C1_FailClosed ==
    /\ \A c \in Conns : \A i \in 1..Len(queue[c]) :
          /\ queue[c][i].kind = "obj"
          /\ queue[c][i].members["decision"] = Str("recommend")
          /\ "item" \in DOMAIN queue[c][i].members
          /\ queue[c][i].members["item"].kind = "update"
          /\ <<ItemId(queue[c][i]), rcPrompt[c]>> \in recommended
    /\ (rpc = "dispatch" /\ lastOut \notin {"none", "recommend"})
          => QueuedFor(cur.id, rcPrompt[curRC]) = {}

C1_Witness ==
    /\ rpc = "dispatch"
    /\ lastOut = "failed"
    /\ \E c \in Conns : queue[c] # <<>>

(***************************************************************************)
(* C2. For every event received and every prompt, the Decisions for that   *)
(* event in the prompt's queues or already emitted to its connections      *)
(* number exactly one if the evaluation for that prompt returned recommend *)
(* and zero otherwise.                                                     *)
(***************************************************************************)
C2_ExactlyOnePerRecommend ==
    \A e \in Events, p \in Prompts :
        Cardinality(QueuedFor(e, p)) + Cardinality(EmittedFor(e, p))
            = IF <<e, p>> \in recommended THEN 1 ELSE 0

C2_Witness ==
    \E e \in Events :
        /\ evalCalls[e] = 2
        /\ <<e, "p1">> \in recommended
        /\ <<e, "p2">> \notin recommended
        /\ Cardinality(QueuedFor(e, "p1")) = 1
        /\ QueuedFor(e, "p2") = {}

(***************************************************************************)
(* C3. Keepalive: no connection sits through a whole quiescent interval    *)
(* blocked on its empty queue without a frame being emitted.               *)
(***************************************************************************)
C3_Keepalive == \A c \in Conns : ~quiet[c]

(***************************************************************************)
(* C4. Every connection that streams drains the queue of the RouterConfig  *)
(* the registry holds for its prompt.                                      *)
(***************************************************************************)
C4_OneQueuePerPrompt ==
    \A c \in Conns : pc[c] = "get" => router_config[c] = routerVal[reqPrompt[c]]

(***************************************************************************)
(* C5. No data loss: every Decision enqueued for a prompt is eventually    *)
(* emitted as a data frame to a connection subscribed to that prompt.      *)
(***************************************************************************)
C5_NoDataLoss ==
    \A e \in Events, p \in Prompts :
        (QueuedFor(e, p) # {}) ~> (EmittedFor(e, p) # {})

C7_NoNodeNoEvaluation ==
    \A e \in nodeless :
        /\ evalCalls[e] = 0
        /\ \A p \in Prompts : QueuedFor(e, p) = {} /\ EmittedFor(e, p) = {}

C7_Witness ==
    /\ 2 \in nodeless
    /\ evalCalls[1] > 0
    /\ Len(routerKeys) = 2

(***************************************************************************)
(* C8. For every raw response with no "{" or no "}", the parser fails and  *)
(* evaluate_update returns exactly the stop Decision.                      *)
(***************************************************************************)
C8_NoBraceFails ==
    (ppc = "done" /\ ~HasBrace(raw)) => (~parsed.ok /\ evaluated = StopDecision)

C10_Original ==
    rpc = "sleeping" => delay = Min2(5 * Pow2(consec), 60)

(***************************************************************************)
(* C10, amended. On the k-th such error the connector sleeps               *)
(* min(5 * 2^j, 60) seconds with j = ((k - 1) mod 5) + 1: 10, 20, 40, 60,  *)
(* 60 and then again from 10; no delay exceeds 60 seconds.                 *)
(***************************************************************************)
C10_BackoffSchedule ==
    rpc = "sleeping" =>
        /\ delay = Min2(5 * Pow2(((consec - 1) % 5) + 1), 60)
        /\ delay <= 60
        /\ consec = 1 => delay = 10
        /\ consec = 2 => delay = 20
        /\ consec = 3 => delay = 40

C10_Witness ==
    /\ rpc = "sleeping"
    /\ consec = 6
    /\ delay = 10

(***************************************************************************)
(* C11. The connector never gives up: at the 5th consecutive unexpected    *)
(* error the retry count is reset to 0 and the connector sleeps and        *)
(* connects again like after any other; whatever errors have happened, the *)
(* thread has not left its loop, and a sleeping connector always comes     *)
(* back to a connect attempt.                                              *)
(***************************************************************************)
C11_NeverGivesUp ==
    /\ [](rpc # "exited")
    /\ []((rpc = "sleeping" /\ consec = max_retries) => retry_count = 0)
    /\ (rpc = "sleeping") ~> (rpc = "connect")

C11_Witness ==
    /\ rpc = "connect"
    /\ lastExit = "unexpected"
    /\ consec = max_retries
    /\ retry_count = 0

(***************************************************************************)
(* C12. A registration made while the Dispatch Loop iterates the registry  *)
(* does not make the iteration fail: the dispatch of an update ends only   *)
(* when every subscription registered at its beginning has been evaluated. *)
(***************************************************************************)
C12_RegistrationTolerated ==
    [][(rpc = "dispatch" /\ rpc' = "streaming") => iterPos = iterLen]_vars

(***************************************************************************)
(* C13. Subscription isolation: when the evaluation of one subscription    *)
(* returns or raises, the loop goes on with the same update and the same   *)
(* iterator; a dispatch during which the registry kept its size ends only  *)
(* after all its subscriptions have been evaluated, and it ends with the   *)
(* connector reading the next event of the same stream.                    *)
(***************************************************************************)
C13_SubscriptionIsolation ==
    [][ /\ (rpc = "eval" /\ rpc' \notin {"eval", "hung"}) =>
              /\ rpc' = "dispatch"
              /\ cur' = cur /\ iterPos' = iterPos /\ iterLen' = iterLen
        /\ (rpc = "dispatch" /\ rpc' # "dispatch") =>
              /\ rpc' \in {"eval", "streaming"}
              /\ (rpc' = "streaming" /\ Len(routerKeys) = iterLen) =>
                     (iterPos = iterLen /\ evalCalls[cur.id] = iterLen)
      ]_vars

\* the body has raised for the first of two subscriptions of the 2nd update
C13_Witness ==
    /\ rpc = "dispatch"
    /\ lastOut = "nodecision"
    /\ cur.id = 2
    /\ iterPos = 1
    /\ iterLen = 2
    /\ Len(routerKeys) = 2

(***************************************************************************)
(* C14. When the connector is back at the top of its loop, or asleep,      *)
(* after a connection error or an unexpected error, the Session opened in  *)
(* the cycle that failed has been closed.                                  *)
(***************************************************************************)
C14_SessionClosedOnError ==
    (rpc \in {"connect", "sleeping"} /\ lastExit \in {"connerr", "unexpected"})
        => ~session_open

(***************************************************************************)
(* C15. A connection error (RequestException or TimeoutError) takes the    *)
(* connector straight back to a connect attempt: it does not sleep, and    *)
(* the retry count and the backoff delay are what they were before.        *)
(***************************************************************************)
C15_ConnectionErrorNotCounted ==
    [][lastExit' = "connerr" =>
          /\ rpc' = "connect"
          /\ retry_count' = retry_count
          /\ delay' = delay
      ]_vars

\* a connection error met after two unexpected errors
C15_Witness ==
    /\ lastExit = "connerr"
    /\ rpc = "connect"
    /\ retry_count = 2
    /\ delay = 20

(***************************************************************************)
(* C16. Every successful connection sets the retry count to 0: it is 0     *)
(* for as long as the connector is connected, and the first unexpected     *)
(* error after a successful connection is followed by a sleep of 10        *)
(* seconds, whatever errors came before the connection.                    *)
(***************************************************************************)
C16_ConnectResetsRetry ==
    /\ rpc \in {"streaming", "dispatch", "eval", "hung"} => retry_count = 0
    /\ (rpc = "sleeping" /\ consec = 1) => (delay = 10 /\ retry_count = 1)

\* connected after three unexpected errors in a row (the last sleep was 40s)
C16_Witness ==
    /\ rpc = "streaming"
    /\ delay = 40
    /\ retry_count = 0

(***************************************************************************)
(* C17. While streaming, an event whose data cannot be decoded or whose    *)
(* processing raises is skipped: the connector keeps reading the same      *)
(* stream (nothing is closed or reopened), the retry count is unchanged,   *)
(* no evaluation is made and no queue changes.                             *)
(***************************************************************************)
C17_BadEventSkipped ==
    [][\A kind \in RaisingKinds :
          ReceiveEvent(kind) =>
              /\ rpc' = "streaming"
              /\ retry_count' = retry_count
              /\ session_open' = session_open
              /\ response_bound' = response_bound
              /\ evalCalls' = evalCalls
              /\ queue' = queue
      ]_vars

\* the 1st event was skipped for its JSON or for raising, and the 2nd one
\* has been evaluated and queued
C17_Witness ==
    /\ nEvents = 2
    /\ 1 \notin nodeless
    /\ evalCalls[1] = 0
    /\ evalCalls[2] = 1
    /\ queue[1] # <<>>
    /\ rpc = "streaming"
    /\ retry_count = 0

(***************************************************************************)
(* C18. A provider call that does not return stalls one evaluation only:   *)
(* the dispatch of the update goes on with the other subscriptions and     *)
(* the connector comes back to reading the events of the feed.             *)
(***************************************************************************)
C18_HangStallsOneEvaluation ==
    (rpc = "hung") ~> (rpc = "streaming")

(***************************************************************************)
(* C19. A Decision is emitted at most once over all the connections that   *)
(* asked for its prompt, and the data frames of any one connection are in  *)
(* the order in which the Dispatch Loop queued them, which is the order of *)
(* the events of the feed.                                                 *)
(***************************************************************************)
C19_AtMostOnceInOrder ==
    /\ \A e \in Events, p \in Prompts : Cardinality(EmittedFor(e, p)) <= 1
    /\ \A c \in Conns : \A i, j \in 1..Len(frames[c]) :
          (i < j /\ frames[c][i].type = "data" /\ frames[c][j].type = "data")
              => ItemId(frames[c][i].payload) < ItemId(frames[c][j].payload)
    /\ \A c \in Conns : \A i, j \in 1..Len(queue[c]) :
          i < j => ItemId(queue[c][i]) < ItemId(queue[c][j])

\* two connections read the same queue: each got one of the two Decisions
C19_Witness ==
    \E c1, c2 \in Conns :
        /\ c1 # c2
        /\ pc[c1] = "get" /\ pc[c2] = "get"
        /\ router_config[c1] = router_config[c2]
        /\ Len(frames[c1]) = 1 /\ ItemId(frames[c1][1].payload) = 1
        /\ Len(frames[c2]) = 1 /\ ItemId(frames[c2][1].payload) = 2

(***************************************************************************)
(* C20. When the event iterator is exhausted without an error the          *)
(* connector is at once back at a connect attempt: it does not sleep, the  *)
(* retry count is still 0, and neither the finished response nor its       *)
(* Session has been closed.                                                *)
(***************************************************************************)
C20_StreamEndReconnects ==
    lastExit = "end" =>
        /\ rpc = "connect"
        /\ retry_count = 0
        /\ session_open
        /\ response_bound

\* the stream ended after two events
C20_Witness ==
    /\ lastExit = "end"
    /\ nEvents = 2
    /\ rpc = "connect"
    /\ session_open

=============================================================================
